---- MODULE Spec2Model ----
(***************************************************************************)
(* A model of app.py, the Flask application of the design gallery: the     *)
(* three Postgres tables (admin, category, design), the signed session    *)
(* cookie of one client, and the route handlers.  Every handler is one     *)
(* action (Spec); toggle_featured is also modelled as the two database     *)
(* round trips it makes, run by two gunicorn workers (SpecConc).           *)
(*                                                                         *)
(* Text is a sequence of one-character strings.  req and resp hold the     *)
(* last request line and the response it was given.  The routes that only  *)
(* read and that no property is about (home, design_preview, about,        *)
(* contact) and the row counts shown on the dashboard are left out.        *)
(***************************************************************************)
EXTENDS Integers, Sequences, FiniteSets, TLC

\* ------------------------------------------------------------ bounds
\* Number of designs ever inserted (values of design_id_seq).
MaxDesigns == 2
\* Number of categories ever inserted (values of category_id_seq).
MaxCategories == 2
\* Longest query string the search properties range over.
MaxQLen == 2
\* Number of toggle_featured requests that overlap one another.
MaxRace == 2

\* ------------------------------------------------------------ text
\* VARCHAR(255) of category.name and design.title.
VarcharMax == 255

NULL == -1

\* The NULL of a text column (category_name of a design without category).
NullText == <<"NULL">>

Chars == {" ", "a", "A", "b", "_"}

RECURSIVE Strings(_)
Strings(n) ==
  IF n = 0 THEN {<<>>}
  ELSE LET shorter == Strings(n - 1)
       IN  shorter \cup {Append(s, c) : s \in {t \in shorter : Len(t) = n - 1}, c \in Chars}

IsSpace(c) == c = " "

RECURSIVE LStrip(_)
LStrip(s) == IF s # <<>> /\ IsSpace(Head(s)) THEN LStrip(Tail(s)) ELSE s

RECURSIVE RStrip(_)
RStrip(s) ==
  IF s # <<>> /\ IsSpace(s[Len(s)]) THEN RStrip(SubSeq(s, 1, Len(s) - 1)) ELSE s

\* str.strip()
Strip(s) == RStrip(LStrip(s))

Lower(c) == IF c = "A" THEN "a" ELSE IF c = "B" THEN "b" ELSE c

LowerStr(s) == [i \in 1..Len(s) |-> Lower(s[i])]

\* s LIKE p: % matches any run of characters, _ any one character.
RECURSIVE Like(_, _)
Like(s, p) ==
  IF p = <<>> THEN s = <<>>
  ELSE IF Head(p) = "%"
       THEN Like(s, Tail(p)) \/ (s # <<>> /\ Like(Tail(s), p))
       ELSE /\ s # <<>>
            /\ Head(p) = "_" \/ Head(p) = Head(s)
            /\ Like(Tail(s), Tail(p))

\* s ILIKE p
ILike(s, p) == Like(LowerStr(s), LowerStr(p))

\* f'%{q}%'
Pattern(q) == <<"%">> \o q \o <<"%">>

\* The order of ORDER BY name (names compared character by character).
CharRank(c) ==
  CASE c = " " -> 0 [] c = "A" -> 1 [] c = "_" -> 2 [] c = "a" -> 3 [] c = "b" -> 4
    [] OTHER -> 5

RECURSIVE TextLess(_, _)
TextLess(s, t) ==
  IF t = <<>> THEN FALSE
  ELSE IF s = <<>> THEN TRUE
  ELSE IF Head(s) # Head(t) THEN CharRank(Head(s)) < CharRank(Head(t))
  ELSE TextLess(Tail(s), Tail(t))

\* ------------------------------------------------------------ state
VARIABLES
  admin,         \* table admin: rows [id, username, password_hash]
  category,      \* table category: rows [id, name] (created_at is never read)
  design,        \* table design: rows [id, title, image_url, category_id, featured, created_at]
  nextCatId,     \* category_id_seq
  nextDesignId,  \* design_id_seq
  clock,         \* CURRENT_TIMESTAMP of the next design insert, as a logical clock
  session,       \* the client's session: [admin_id, admin_username]
  req,           \* the last request line: [route, method, id, next]
  resp,          \* the response it was given
  wk,            \* per worker, the toggle_featured request it is handling
  race           \* the toggles in flight together: [id, orig, n]

vars == <<admin, category, design, nextCatId, nextDesignId, clock, session, req, resp, wk, race>>

tables == <<admin, category, design, nextCatId, nextDesignId, clock>>

Workers == {1, 2}

\* ------------------------------------------------------------ requests and responses
NoPath == [route |-> "", id |-> 0]

Path(route, id) == [route |-> route, id |-> id]

Request(route, method, id, next) ==
  [route |-> route, id |-> id, method |-> method, next |-> next]

\* request.path
RequestPath(r) == Path(r.route, r.id)

NoLocation == [next |-> NoPath, endpoint |-> ""]

NoJson == [ok |-> "", featured |-> NULL]

Response(status, page, location, flash, categories, designs, json) ==
  [status |-> status, page |-> page, location |-> location, flash |-> flash,
   categories |-> categories, designs |-> designs, json |-> json]

NoRequest == Request("", "", 0, NoPath)

NoResponse == Response(0, "", NoLocation, {}, <<>>, <<>>, NoJson)

\* render_template(page, ...)
Render(page, flash, categories, designs) ==
  Response(200, page, NoLocation, flash, categories, designs, NoJson)

\* redirect(url_for(endpoint, next=next))
Redirect(endpoint, next, flash) ==
  Response(302, "", [next |-> next, endpoint |-> endpoint], flash, <<>>, <<>>, NoJson)

\* An exception no handler catches: Flask answers 500.
ServerError(flash) == Response(500, "", NoLocation, flash, <<>>, <<>>, NoJson)

\* jsonify(...), status
Json(status, ok, featured) ==
  Response(status, "", NoLocation, {}, <<>>, <<>>, [ok |-> ok, featured |-> featured])

MsgInvalid == "Invalid credentials"
MsgLoggedIn == "Logged in"
MsgLoggedOut == "Logged out"
MsgNameRequired == "Name required"
MsgCatAdded == "Category added"
MsgCatConflict == "Category could not be added (maybe exists)"
MsgCatDeleted == "Category deleted"
MsgCatUpdated == "Category updated"
MsgDesignRequired == "Title and image URL required"
MsgDesignAdded == "Design added"
MsgDesignUpdated == "Design updated"
MsgDesignDeleted == "Design deleted"

\* ------------------------------------------------------------ statements
\* check_password_hash(generate_password_hash(pw), pw): the hash is salted and
\* one-way; all the code does with it is verify a password against it.
GeneratePasswordHash(pw) == [scheme |-> "pbkdf2", of |-> pw]

CheckPasswordHash(hash, pw) == hash = GeneratePasswordHash(pw)

\* SELECT * FROM admin WHERE username = %s (one=True): the matching rows.
AdminByUsername(username) == {a \in admin : a.username = username}

\* The insert into a category table whose name column is not UNIQUE.
InsertCategory_NotUnique(rows, name) ==
  IF Len(name) > VarcharMax
  THEN [ok |-> FALSE, rows |-> rows]
  ELSE [ok |-> TRUE, rows |-> rows \cup {[id |-> nextCatId, name |-> name]}]

\* INSERT INTO category (name) VALUES (%s): NOT NULL UNIQUE, VARCHAR(255).
InsertCategory(rows, name) ==
  IF Len(name) > VarcharMax \/ \E c \in rows : c.name = name
  THEN [ok |-> FALSE, rows |-> rows]
  ELSE [ok |-> TRUE,
        rows |-> rows \cup {[id |-> nextCatId, name |-> name]}]

\* UPDATE category SET name=%s WHERE id=%s
UpdateCategory(rows, id, name) ==
  IF \E c \in rows : c.id = id
  THEN IF Len(name) > VarcharMax \/ \E c \in rows : c.id # id /\ c.name = name
       THEN [ok |-> FALSE, rows |-> rows]
       ELSE [ok |-> TRUE,
             rows |-> {IF c.id = id THEN [c EXCEPT !.name = name] ELSE c : c \in rows}]
  ELSE [ok |-> TRUE, rows |-> rows]

\* fk_category with ON DELETE CASCADE in place of SET NULL.
OnDeleteCascade(rows, cat_id) == {d \in rows : d.category_id # cat_id}

\* fk_category ... ON DELETE SET NULL, applied to the design rows.
OnDeleteSetNull(rows, cat_id) ==
  {IF d.category_id = cat_id THEN [d EXCEPT !.category_id = NULL] ELSE d : d \in rows}

\* DELETE FROM category WHERE id = %s
DeleteCategory(rows, cat_id) == {c \in rows : c.id # cat_id}

\* fk_category: a non-NULL category_id references a row of category.
ForeignKeyOk(cat_id) == cat_id = NULL \/ \E c \in category : c.id = cat_id

\* INSERT INTO design (title, image_url, category_id, featured) VALUES (...)
InsertDesign(rows, title, url, cat, featured) ==
  IF Len(title) > VarcharMax \/ ~ForeignKeyOk(cat)
  THEN [ok |-> FALSE, rows |-> rows]
  ELSE [ok |-> TRUE,
        rows |-> rows \cup {[id |-> nextDesignId, featured |-> featured,
                             category_id |-> cat, title |-> title,
                             image_url |-> url, created_at |-> clock]}]

\* UPDATE design SET title=%s, image_url=%s, category_id=%s, featured=%s WHERE id=%s
UpdateDesign(rows, id, title, url, cat, featured) ==
  IF \E d \in rows : d.id = id
  THEN IF Len(title) > VarcharMax \/ ~ForeignKeyOk(cat)
       THEN [ok |-> FALSE, rows |-> rows]
       ELSE [ok |-> TRUE,
             rows |-> {IF d.id = id
                         THEN [d EXCEPT !.title = title, !.image_url = url,
                                        !.category_id = cat, !.featured = featured]
                         ELSE d : d \in rows}]
  ELSE [ok |-> TRUE, rows |-> rows]

\* DELETE FROM design WHERE id=%s
DeleteDesign(rows, id) == {d \in rows : d.id # id}

\* UPDATE design SET featured=%s WHERE id=%s
UpdateFeatured(rows, id, new) ==
  {IF d.id = id THEN [d EXCEPT !.featured = new] ELSE d : d \in rows}

\* SELECT featured FROM design WHERE id=%s (one=True): the matching rows.
SelectFeatured(rows, id) == {d.featured : d \in {e \in rows : e.id = id}}

\* new = 1, whatever the row holds.
NewFeatured_AlwaysOn(cur) == 1

\* new = 0 if cur['featured'] else 1
NewFeatured(cur) == IF cur # 0 /\ cur # NULL THEN 0 ELSE 1

\* rows as the sequence ORDER BY name gives.
RECURSIVE OrderByName(_)
OrderByName(rows) ==
  IF rows = {} THEN <<>>
  ELSE LET first == CHOOSE c \in rows :
                      \A o \in rows \ {c} : TextLess(c.name, o.name) \/ c.name = o.name
       IN  <<first>> \o OrderByName(rows \ {first})

\* SELECT * FROM category ORDER BY name
CategoryList == OrderByName(category)

\* design.*, category.name AS category_name ... LEFT JOIN category
JoinCategory(d) ==
  [id |-> d.id, featured |-> d.featured, category_id |-> d.category_id,
   title |-> d.title, image_url |-> d.image_url, created_at |-> d.created_at,
   category_name |-> IF \E c \in category : c.id = d.category_id
                       THEN (CHOOSE c \in category : c.id = d.category_id).name
                       ELSE NullText]

\* ORDER BY featured DESC, created_at DESC
Before(d, e) ==
  \/ d.featured > e.featured
  \/ d.featured = e.featured /\ d.created_at > e.created_at

RECURSIVE OrderByFeaturedCreated(_)
OrderByFeaturedCreated(rows) ==
  IF rows = {} THEN <<>>
  ELSE LET first == CHOOSE d \in rows : \A o \in rows \ {d} : ~Before(o, d)
       IN  <<first>> \o OrderByFeaturedCreated(rows \ {first})

\* ORDER BY created_at DESC
RECURSIVE OrderByCreated(_)
OrderByCreated(rows) ==
  IF rows = {} THEN <<>>
  ELSE LET first == CHOOSE d \in rows : \A o \in rows : o.created_at <= d.created_at
       IN  <<first>> \o OrderByCreated(rows \ {first})

\* The rows api_search selects for the trimmed query q.
ApiSearchRows(q) ==
  OrderByFeaturedCreated(
    {JoinCategory(d) : d \in {e \in design : \/ ILike(e.title, Pattern(q))
                                              \/ ILike(e.image_url, Pattern(q))}})

\* The rows gallery selects for the trimmed query q and the cat argument
\* (0: the argument is absent or empty).
GalleryRows(q, cat) ==
  OrderByFeaturedCreated(
    {JoinCategory(d) : d \in
       {e \in design :
          /\ cat # 0 => \E c \in category : c.id = e.category_id /\ c.id = cat
          /\ q # <<>> => ILike(e.title, Pattern(q)) \/ ILike(e.image_url, Pattern(q))}})

\* ------------------------------------------------------------ inputs
\* A text one character longer than VARCHAR(255) holds.
LongText == [i \in 1..(VarcharMax + 1) |-> "a"]

\* The seeded admin's and reset_admin's: each is unknown, or wrong, while the
\* other is in the table.
Usernames == {"admin", "RBADMINS"}

Passwords == {"admin123", "RB_ADMINS_03"}

NameInputs == {<<" ">>, <<"a">>, <<" ", "a">>, <<"A">>}

\* A design form: the title, image_url, category and featured fields.  category
\* is 0 when the field is absent or empty, featured is "" when the box is
\* unchecked (the field is absent).
Form(t, u, c, f) == [category |-> c, featured |-> f, title |-> t, image_url |-> u]

\* The forms submitted: an empty title, an empty URL, a plain design, a featured
\* design of category 1, a category no row has, a title too long for the column.
DesignForms ==
  {Form(<<" ">>, <<" ", "b">>, 0, ""),
   Form(<<"a", " ">>, <<>>, 0, "on"),
   Form(<<"a", " ">>, <<" ", "b">>, 0, ""),
   Form(<<"A", "_">>, <<" ", "b">>, 1, "on"),
   Form(<<"A", "_">>, <<" ", "b">>, MaxCategories + 1, ""),
   Form(LongText, <<" ", "b">>, 0, "on")}

QueryInputs == {<<>>, <<"a", " ">>, <<"_">>}

CategoryIds == 1..MaxCategories

DesignIds == 1..MaxDesigns

\* ------------------------------------------------------------ session and guard
NoSession == [admin_id |-> NULL, admin_username |-> ""]

\* is_logged_in() taking every session for an admin's.
IsLoggedIn_Always(s) == TRUE

\* is_logged_in()
IsLoggedIn(s) == s.admin_id # NULL

\* admin_required: redirect(url_for('admin_login', next=request.path))
LoginRedirect(r) == Redirect("admin_login", RequestPath(r), {})

\* What admin_required's wrapper does with request r when nobody is logged in.
Refused(r) ==
  /\ ~IsLoggedIn(session)
  /\ req' = r
  /\ resp' = LoginRedirect(r)
  /\ UNCHANGED <<tables, session, wk, race>>

\* The next= argument of the login URL the client is at: the one of the redirect
\* it follows, the one of the login page it resubmits, or none.
LoginNexts ==
  {NoPath}
    \cup (IF resp.location.endpoint = "admin_login" THEN {resp.location.next} ELSE {})
    \cup (IF req.route = "admin_login" /\ resp.status = 200 THEN {req.next} ELSE {})

\* ------------------------------------------------------------ public routes
Gallery(q, cat) ==
  /\ req' = Request("gallery", "GET", 0, NoPath)
  /\ resp' = Render("gallery.html", {}, CategoryList, GalleryRows(Strip(q), cat))
  /\ UNCHANGED <<tables, session, wk, race>>

ApiSearch(q) ==
  /\ req' = Request("api_search", "GET", 0, NoPath)
  /\ resp' = Response(200, "", NoLocation, {}, <<>>, ApiSearchRows(Strip(q)), NoJson)
  /\ UNCHANGED <<tables, session, wk, race>>

ResetAdmin ==
  /\ req' = Request("reset_admin", "GET", 0, NoPath)
  /\ admin' = {[a EXCEPT !.username = "RBADMINS",
                         !.password_hash = GeneratePasswordHash("RB_ADMINS_03")] : a \in admin}
  /\ resp' = Response(200, "reset_admin", NoLocation, {}, <<>>, <<>>, NoJson)
  /\ UNCHANGED <<category, design, nextCatId, nextDesignId, clock, session, wk, race>>

\* ------------------------------------------------------------ login, logout
AdminLogin(method, username, password, next) ==
  /\ req' = Request("admin_login", method, 0, next)
  /\ LET found == AdminByUsername(username)
         row == CHOOSE a \in found : TRUE
     IN  IF method = "POST" /\ found # {} /\ CheckPasswordHash(row.password_hash, password)
         THEN /\ session' = [admin_id |-> row.id, admin_username |-> row.username]
              /\ resp' = Redirect("admin_dashboard", NoPath, {MsgLoggedIn})
         ELSE /\ session' = session
              /\ resp' = Render("admin/login.html",
                                IF method = "POST" THEN {MsgInvalid} ELSE {}, <<>>, <<>>)
  /\ UNCHANGED <<tables, wk, race>>

AdminLogout ==
  /\ req' = Request("admin_logout", "GET", 0, NoPath)
  /\ session' = NoSession
  /\ resp' = Redirect("home", NoPath, {MsgLoggedOut})
  /\ UNCHANGED <<tables, wk, race>>

\* ------------------------------------------------------------ the connection
\* The request's psycopg2 connection (g.db, autocommit off) after execute_db:
\* a statement that succeeded was committed; one that raised left its
\* transaction aborted, and execute_db neither commits nor rolls back then.
AfterExecute(ok) == IF ok THEN "idle" ELSE "aborted"

\* query_db on that connection: in an aborted transaction every command
\* raises InFailedSqlTransaction.
QueryRaises(conn) == conn = "aborted"

\* ------------------------------------------------------------ admin routes
AdminDashboard ==
  LET r == Request("admin_dashboard", "GET", 0, NoPath)
  IN  \/ Refused(r)
      \/ /\ IsLoggedIn(session)
         /\ req' = r
         /\ resp' = Render("admin/dashboard.html", {}, CategoryList, <<>>)
         /\ UNCHANGED <<tables, session, wk, race>>

AdminCategories(method, name) ==
  LET r == Request("admin_categories", method, 0, NoPath)
      nm == Strip(name)
      insert == method = "POST" /\ nm # <<>>
      ins == InsertCategory(category, nm)
      conn == IF insert THEN AfterExecute(ins.ok) ELSE "idle"
      flash == IF method # "POST" THEN {}
               ELSE IF ~insert THEN {MsgNameRequired}
               ELSE IF ins.ok THEN {MsgCatAdded} ELSE {MsgCatConflict}
  IN  \/ Refused(r)
      \/ /\ IsLoggedIn(session)
         /\ insert /\ ins.ok => nextCatId <= MaxCategories
         /\ req' = r
         /\ IF insert /\ ins.ok
            THEN /\ category' = ins.rows
                 /\ nextCatId' = nextCatId + 1
            ELSE UNCHANGED <<category, nextCatId>>
         /\ resp' = IF QueryRaises(conn)
                    THEN ServerError(flash)
                    ELSE Render("admin/categories.html", flash, OrderByName(category'), <<>>)
         /\ UNCHANGED <<admin, design, nextDesignId, clock, session, wk, race>>

AdminCategoryDelete(cat_id) ==
  LET r == Request("admin_category_delete", "POST", cat_id, NoPath)
  IN  \/ Refused(r)
      \/ /\ IsLoggedIn(session)
         /\ req' = r
         /\ category' = DeleteCategory(category, cat_id)
         /\ design' = OnDeleteSetNull(design, cat_id)
         /\ resp' = Redirect("admin_categories", NoPath, {MsgCatDeleted})
         /\ UNCHANGED <<admin, nextCatId, nextDesignId, clock, session, wk, race>>

AdminCategoryEdit(cat_id, name) ==
  LET r == Request("admin_category_edit", "POST", cat_id, NoPath)
      nm == Strip(name)
      upd == UpdateCategory(category, cat_id, nm)
  IN  \/ Refused(r)
      \/ /\ IsLoggedIn(session)
         /\ req' = r
         /\ IF nm = <<>>
            THEN /\ category' = category
                 /\ resp' = Redirect("admin_categories", NoPath, {})
            ELSE IF upd.ok
            THEN /\ category' = upd.rows
                 /\ resp' = Redirect("admin_categories", NoPath, {MsgCatUpdated})
            ELSE /\ category' = category
                 /\ resp' = ServerError({})
         /\ UNCHANGED <<admin, design, nextCatId, nextDesignId, clock, session, wk, race>>

AdminDesigns ==
  LET r == Request("admin_designs", "GET", 0, NoPath)
  IN  \/ Refused(r)
      \/ /\ IsLoggedIn(session)
         /\ req' = r
         /\ resp' = Render("admin/designs.html", {}, CategoryList,
                           OrderByCreated({JoinCategory(d) : d \in design}))
         /\ UNCHANGED <<tables, session, wk, race>>

\* request.form.get('category') or None
CategoryParam(c) == IF c = 0 THEN NULL ELSE c

\* 1 if request.form.get('featured')=='on' else 0
FeaturedParam(f) == IF f = "on" THEN 1 ELSE 0

\* if not title
MissingField_TitleOnly(t, url) == t = <<>>

\* if not title or not url
MissingField(t, url) == t = <<>> \/ url = <<>>

AdminDesignAdd(title, image_url, category_in, featured_in) ==
  LET r == Request("admin_design_add", "POST", 0, NoPath)
      t == Strip(title)
      url == Strip(image_url)
      ins == InsertDesign(design, t, url, CategoryParam(category_in),
                          FeaturedParam(featured_in))
  IN  \/ Refused(r)
      \/ /\ IsLoggedIn(session)
         /\ ~MissingField(t, url) /\ ins.ok => nextDesignId <= MaxDesigns
         /\ req' = r
         /\ IF MissingField(t, url)
            THEN /\ resp' = Redirect("admin_designs", NoPath, {MsgDesignRequired})
                 /\ UNCHANGED <<design, nextDesignId, clock>>
            ELSE IF ins.ok
            THEN /\ design' = ins.rows
                 /\ nextDesignId' = nextDesignId + 1
                 /\ clock' = clock + 1
                 /\ resp' = Redirect("admin_designs", NoPath, {MsgDesignAdded})
            ELSE /\ resp' = ServerError({})
                 /\ UNCHANGED <<design, nextDesignId, clock>>
         /\ UNCHANGED <<admin, category, nextCatId, session, wk, race>>

AdminDesignEdit(design_id, title, image_url, category_in, featured_in) ==
  LET r == Request("admin_design_edit", "POST", design_id, NoPath)
      upd == UpdateDesign(design, design_id, Strip(title), Strip(image_url),
                          CategoryParam(category_in), FeaturedParam(featured_in))
  IN  \/ Refused(r)
      \/ /\ IsLoggedIn(session)
         /\ req' = r
         /\ IF upd.ok
            THEN /\ design' = upd.rows
                 /\ resp' = Redirect("admin_designs", NoPath, {MsgDesignUpdated})
            ELSE /\ design' = design
                 /\ resp' = ServerError({})
         /\ UNCHANGED <<admin, category, nextCatId, nextDesignId, clock, session, wk, race>>

AdminDesignDelete(design_id) ==
  LET r == Request("admin_design_delete", "POST", design_id, NoPath)
  IN  \/ Refused(r)
      \/ /\ IsLoggedIn(session)
         /\ req' = r
         /\ design' = DeleteDesign(design, design_id)
         /\ resp' = Redirect("admin_designs", NoPath, {MsgDesignDeleted})
         /\ UNCHANGED <<admin, category, nextCatId, nextDesignId, clock, session, wk, race>>

\* toggle_featured's body on the design rows: the rows after it and its answer.
ToggleRows(rows, design_id) ==
  LET cur == SelectFeatured(rows, design_id)
      new == NewFeatured(CHOOSE f \in cur : TRUE)
  IN  IF cur = {}
      THEN [resp |-> Json(404, "false", NULL), rows |-> rows]
      ELSE [resp |-> Json(200, "true", new), rows |-> UpdateFeatured(rows, design_id, new)]

ToggleFeatured(design_id) ==
  LET r == Request("toggle_featured", "POST", design_id, NoPath)
      out == ToggleRows(design, design_id)
  IN  \/ Refused(r)
      \/ /\ IsLoggedIn(session)
         /\ req' = r
         /\ design' = out.rows
         /\ resp' = out.resp
         /\ UNCHANGED <<admin, category, nextCatId, nextDesignId, clock, session, wk, race>>

\* ------------------------------------------------------------ two workers
Idle == [id |-> 0, cur |-> {}, pc |-> "idle"]

NoRace == [n |-> 0, id |-> 0, orig |-> NULL]

AllIdle == \A w \in Workers : wk[w].pc = "idle"

InFlight == Cardinality({w \in Workers : wk[w].pc # "idle"})

\* Worker w takes a toggle_featured request for an existing design of the
\* logged-in client and runs its SELECT.  Requests overlap only on one design.
ToggleRead(w, design_id) ==
  /\ IsLoggedIn(session)
  /\ wk[w].pc = "idle"
  /\ \E d \in design : d.id = design_id
  /\ ~AllIdle => design_id = race.id /\ race.n + InFlight < MaxRace
  /\ wk' = [wk EXCEPT ![w] = [id |-> design_id,
                               cur |-> SelectFeatured(design, design_id),
                               pc |-> "read"]]
  /\ race' = IF AllIdle
             THEN [n |-> 0, id |-> design_id,
                   orig |-> CHOOSE f \in SelectFeatured(design, design_id) : TRUE]
             ELSE race
  /\ UNCHANGED <<tables, session, req, resp>>

\* Worker w runs its UPDATE, commits and answers.
ToggleWrite(w) ==
  LET new == NewFeatured(CHOOSE f \in wk[w].cur : TRUE)
  IN  /\ wk[w].pc = "read"
      /\ req' = Request("toggle_featured", "POST", wk[w].id, NoPath)
      /\ design' = UpdateFeatured(design, wk[w].id, new)
      /\ resp' = Json(200, "true", new)
      /\ wk' = [wk EXCEPT ![w] = Idle]
      /\ race' = [race EXCEPT !.n = race.n + 1]
      /\ UNCHANGED <<admin, category, nextCatId, nextDesignId, clock, session>>

\* ------------------------------------------------------------ specification
Init ==
  /\ admin = {[id |-> 1, username |-> "admin",
               password_hash |-> GeneratePasswordHash("admin123")]}
  /\ category = {}
  /\ design = {}
  /\ nextCatId = 1
  /\ nextDesignId = 1
  /\ clock = 1
  /\ session = NoSession
  /\ req = NoRequest
  /\ resp = NoResponse
  /\ wk = [w \in Workers |-> Idle]
  /\ race = NoRace

Next ==
  \/ \E q \in QueryInputs, cat \in {0, 1} : Gallery(q, cat)
  \/ \E q \in QueryInputs : ApiSearch(q)
  \/ ResetAdmin
  \/ AdminLogin("GET", "", "", NoPath)
  \/ \E u \in Usernames, p \in Passwords : AdminLogin("POST", u, p, NoPath)
  \/ AdminLogout
  \/ AdminDashboard
  \/ AdminCategories("GET", <<>>)
  \/ \E n \in NameInputs : AdminCategories("POST", n)
  \/ \E c \in CategoryIds : AdminCategoryDelete(c)
  \/ \E c \in CategoryIds, n \in NameInputs : AdminCategoryEdit(c, n)
  \/ AdminDesigns
  \/ \E f \in DesignForms : AdminDesignAdd(f.title, f.image_url, f.category, f.featured)
  \/ \E d \in DesignIds, f \in DesignForms :
       AdminDesignEdit(d, f.title, f.image_url, f.category, f.featured)
  \/ \E d \in DesignIds : AdminDesignDelete(d)
  \/ \E d \in DesignIds : ToggleFeatured(d)

Spec == Init /\ [][Next]_vars

\* Two workers serving toggle_featured requests of the logged-in client, over the
\* designs the admin has added.
NextConc ==
  \/ \E u \in Usernames, p \in Passwords : AdminLogin("POST", u, p, NoPath)
  \/ \E f \in DesignForms :
       AllIdle /\ AdminDesignAdd(f.title, f.image_url, f.category, f.featured)
  \/ \E w \in Workers, d \in DesignIds : ToggleRead(w, d)
  \/ \E w \in Workers : ToggleWrite(w)

SpecConc == Init /\ [][NextConc]_vars

\* The login flow: the client follows the redirects it is given, so that the login
\* URL it requests carries the next= argument admin_required put there.
NextLogin ==
  \/ \E n \in LoginNexts : AdminLogin("GET", "", "", n)
  \/ \E u \in Usernames, p \in Passwords, n \in LoginNexts : AdminLogin("POST", u, p, n)
  \/ AdminLogout
  \/ AdminDashboard
  \/ AdminCategories("GET", <<>>)
  \/ \E n \in NameInputs : AdminCategories("POST", n)
  \/ \E c \in CategoryIds : AdminCategoryDelete(c)
  \/ AdminDesigns
  \/ \E d \in DesignIds : ToggleFeatured(d)

SpecLogin == Init /\ [][NextLogin]_vars

\* ------------------------------------------------------------ properties
AdminOnlyRoutes ==
  {"admin_dashboard", "admin_categories", "admin_category_delete", "admin_category_edit",
   "admin_designs", "admin_design_add", "admin_design_edit", "admin_design_delete",
   "toggle_featured"}

\* The session carries no admin identity.
Anonymous(s) == s.admin_id = NULL

\* Username u exists and password p verifies against its stored hash.
Verifies(u, p) == \E a \in admin : a.username = u /\ a.password_hash = GeneratePasswordHash(p)

\* C1: a request to an admin-only route made without an admin identity in the
\* session is answered with a redirect to the login route and changes no table, so
\* a handler runs, and a table changes, only for a session with an identity; the
\* session gets an identity only by a login POST whose username exists and whose
\* password verifies against the stored hash; a failed login leaves the session as
\* it was, and logout removes the identity.
C1_AdminGuard ==
  [][/\ (req'.route \in AdminOnlyRoutes /\ Anonymous(session)) =>
          /\ resp'.status = 302
          /\ resp'.location = [next |-> RequestPath(req'), endpoint |-> "admin_login"]
          /\ UNCHANGED <<admin, category, design, nextCatId, nextDesignId, session>>
     /\ (category' # category \/ design' # design) =>
          req'.route \in AdminOnlyRoutes /\ ~Anonymous(session)
     /\ (req'.route \in AdminOnlyRoutes /\ resp'.location.endpoint # "admin_login") =>
          ~Anonymous(session)
     /\ (session' # session /\ ~Anonymous(session')) =>
          /\ req'.route = "admin_login" /\ req'.method = "POST"
          /\ \E u \in Usernames, p \in Passwords :
               /\ AdminLogin("POST", u, p, req'.next)
               /\ Verifies(u, p)
               /\ session'.admin_username = u
     /\ \A u \in Usernames, p \in Passwords :
          (AdminLogin("POST", u, p, req'.next) /\ ~Verifies(u, p)) =>
            /\ session' = session
            /\ MsgInvalid \in resp'.flash
            /\ resp'.status = 200
     /\ req'.route = "admin_logout" => Anonymous(session')
    ]_vars

\* A design-create request of an anonymous session, redirected to the login route
\* with the design table still empty.
C1_Witness ==
  /\ req.route = "admin_design_add"
  /\ Anonymous(session)
  /\ resp.status = 302
  /\ resp.location = [next |-> Path("admin_design_add", 0), endpoint |-> "admin_login"]
  /\ design = {}
  /\ category # {}

\* C2: category delete removes the category and no design: the design ids are the
\* same, each design that referred to the category now has no category and is
\* otherwise the same, every other design is the same, and no design refers to the
\* deleted id.
C2_CategoryDeleteSetsNull ==
  [][(req'.route = "admin_category_delete" /\ ~Anonymous(session)) =>
       /\ {d.id : d \in design'} = {d.id : d \in design}
       /\ Cardinality(design') = Cardinality(design)
       /\ \A d \in design :
            [d EXCEPT !.category_id = IF d.category_id = req'.id THEN NULL
                                      ELSE d.category_id] \in design'
       /\ \A e \in design' : e.category_id # req'.id
       /\ category' = {c \in category : c.id # req'.id}
    ]_vars

\* Category 1 was just deleted and both designs that were filed under it (the
\* forms titled "A_" give category 1) are still there, with no category.
C2_Witness ==
  /\ req.route = "admin_category_delete" /\ req.id = 1
  /\ resp.location.endpoint = "admin_categories"
  /\ \A c \in category : c.id # 1
  /\ Cardinality({d \in design : d.title = <<"A", "_">> /\ d.category_id = NULL}) = 2

NamesUnique == \A c1, c2 \in category : c1.name = c2.name => c1 = c2

\* C3: a category create whose trimmed name is the name of an existing category
\* leaves the category table as it was and flashes the conflict message; the names
\* of the table are pairwise different in every state.
C3_DuplicateNameRejected ==
  [][/\ \A n \in NameInputs :
          (/\ req'.route = "admin_categories" /\ ~Anonymous(session)
           /\ AdminCategories("POST", n)
           /\ \E c \in category : c.name = Strip(n)) =>
            /\ category' = category
            /\ Cardinality(category') = Cardinality(category)
            /\ resp'.flash = {MsgCatConflict}
     /\ NamesUnique'
    ]_vars

\* The conflict message was flashed by a category create (every name submitted is
\* short enough, so the insert failed on the UNIQUE constraint).
C3_Witness ==
  /\ req.route = "admin_categories" /\ req.method = "POST"
  /\ MsgCatConflict \in resp.flash
  /\ Cardinality(category) = 2

FeaturedOf(rows, id) == (CHOOSE d \in rows : d.id = id).featured

\* C4: toggle_featured on an existing design answers {ok: true, featured: new}
\* where new is the stored value, which is the other one of 0 and 1, and changes
\* nothing else; toggling once more gives back the rows as they were.  On an id
\* with no design it answers {ok: false} with status 404 and changes no table.
C4_ToggleFeatured ==
  [][(req'.route = "toggle_featured" /\ ~Anonymous(session)) =>
       IF \E d \in design : d.id = req'.id
       THEN /\ resp'.status = 200
            /\ resp'.json = [ok |-> "true", featured |-> FeaturedOf(design', req'.id)]
            /\ FeaturedOf(design', req'.id) = 1 - FeaturedOf(design, req'.id)
            /\ design' = {IF d.id = req'.id THEN [d EXCEPT !.featured = 1 - d.featured]
                                             ELSE d : d \in design}
            /\ ToggleRows(design', req'.id).rows = design
            /\ ToggleRows(design', req'.id).resp.json.featured = FeaturedOf(design, req'.id)
            /\ UNCHANGED <<admin, category>>
       ELSE /\ resp'.status = 404
            /\ resp'.json.ok = "false"
            /\ UNCHANGED <<admin, category, design>>
    ]_vars

\* A toggle that switched a design's flag off, with another design left alone.
C4_Witness ==
  /\ req.route = "toggle_featured"
  /\ resp.json = [ok |-> "true", featured |-> 0]
  /\ \E d \in design : d.id = req.id /\ d.featured = 0
  /\ \E d \in design : d.id # req.id /\ d.featured = 1

\* The one design a create of form (t, u, c, f) adds.
InsertedOne(t, u, c, f) ==
  \E d \in design' :
    /\ d \notin design
    /\ design' = design \cup {d}
    /\ \A e \in design : e.id # d.id
    /\ d.title = Strip(t) /\ d.image_url = Strip(u)
    /\ d.category_id = (IF c = 0 THEN NULL ELSE c)
    /\ d.featured = (IF f = "on" THEN 1 ELSE 0)

\* C5 as claimed: design create with an empty trimmed title or URL flashes the
\* validation message and leaves the design table as it was; with both non-empty
\* it inserts exactly one design.
C5_DesignCreate_AsClaimed ==
  [][\A f \in DesignForms :
       (/\ req'.route = "admin_design_add" /\ ~Anonymous(session)
        /\ AdminDesignAdd(f.title, f.image_url, f.category, f.featured)) =>
         IF Strip(f.title) = <<>> \/ Strip(f.image_url) = <<>>
         THEN design' = design /\ resp'.flash = {MsgDesignRequired}
         ELSE InsertedOne(f.title, f.image_url, f.category, f.featured)
    ]_vars

\* C5 amended: with both non-empty, a title of at most 255 characters and a
\* category that is absent or the id of an existing category, it inserts exactly
\* one design, storing an absent category as NULL and a featured field other than
\* "on" as 0.
C5_DesignCreate ==
  [][\A f \in DesignForms :
       (/\ req'.route = "admin_design_add" /\ ~Anonymous(session)
        /\ AdminDesignAdd(f.title, f.image_url, f.category, f.featured)) =>
         IF Strip(f.title) = <<>> \/ Strip(f.image_url) = <<>>
         THEN design' = design /\ resp'.flash = {MsgDesignRequired}
         ELSE (/\ Len(Strip(f.title)) <= VarcharMax
               /\ f.category = 0 \/ \E c \in category : c.id = f.category) =>
                InsertedOne(f.title, f.image_url, f.category, f.featured)
    ]_vars

\* A create was refused for a missing field and the design table is still empty.
C5_Witness ==
  /\ req.route = "admin_design_add"
  /\ resp.flash = {MsgDesignRequired}
  /\ design = {} /\ nextDesignId = 1

\* C6: every stored design has a non-empty title and a non-empty image_url, and a
\* featured value of 0 or 1.
C6_DesignFieldsValid ==
  \A d \in design : d.title # <<>> /\ d.image_url # <<>> /\ d.featured \in {0, 1}

\* C7: the redirect that refuses an anonymous request carries the requested path
\* as next=, and a login that succeeds at a login URL carrying next=P redirects
\* the client to P.
C7_LoginForwardsToNext ==
  /\ resp.location.endpoint = "admin_login" => resp.location.next = RequestPath(req)
  /\ (req.route = "admin_login" /\ resp.status = 302 /\ req.next # NoPath) =>
       resp.location.endpoint = req.next.route

\* q occurs in s, letter case aside.
Contains(s, q) ==
  \E i \in 0..(Len(s) - Len(q)) : \A k \in 1..Len(q) : Lower(s[i + k]) = Lower(q[k])

\* The designs whose title or image URL contains q.
Matching(q) == {d \in design : Contains(d.title, q) \/ Contains(d.image_url, q)}

\* The rows are in the order featured first, then newest first.
FeaturedThenNewest(rows) ==
  \A i, j \in 1..Len(rows) :
    i < j => \/ rows[i].featured > rows[j].featured
             \/ rows[i].featured = rows[j].featured /\ rows[i].created_at > rows[j].created_at

\* The ids of the rows.
IdsOf(rows) == {rows[i].id : i \in 1..Len(rows)}

\* C8: for every query string q, api_search returns exactly the designs whose
\* title or image URL contains the trimmed q, featured first then newest first,
\* and gallery returns the same designs, restricted to the category when one is
\* given.
C8_SearchIsSubstringMatch ==
  \A q \in Strings(MaxQLen) :
    LET api == ApiSearchRows(Strip(q))
        want == {d.id : d \in Matching(Strip(q))}
    IN  /\ IdsOf(api) = want
        /\ Len(api) = Cardinality(want)
        /\ FeaturedThenNewest(api)
        /\ \A cat \in 0..MaxCategories :
             LET gal == GalleryRows(Strip(q), cat)
             IN  /\ IdsOf(gal) = {d.id : d \in {e \in Matching(Strip(q)) :
                                                  cat # 0 => e.category_id = cat}}
                 /\ FeaturedThenNewest(gal)

\* C9: every request to the category list/create route that the guard lets
\* through is answered with the category page, showing the categories of the
\* table in name order.
C9_AlwaysRedisplays ==
  (req.route = "admin_categories" /\ resp.location.endpoint # "admin_login") =>
    /\ resp.status = 200
    /\ resp.page = "admin/categories.html"
    /\ resp.categories = CategoryList

\* C10: once two toggle_featured requests for one design that were in flight
\* together have both been answered, the design's featured value is the one it had
\* before them.
C10_NoLostToggle ==
  (AllIdle /\ race.n = 2) =>
    \A d \in design : d.id = race.id => d.featured = race.orig

====
